---- MODULE Spec2Model ----
(***************************************************************************)
(* Model of anisotropic-young-modulus_cubic-materials_from_compliance_     *)
(* colored.py: the command line of main, the field evaluation              *)
(* directional_E_cubic_from_S and the rendering                            *)
(* plot_young_surface_colored.                                             *)
(*                                                                         *)
(* Numbers.  A Python float is modelled as an extended rational            *)
(* <<kind, n, d>>: <<"fin", n, d>> is n/d in lowest terms (d > 0),         *)
(* <<"inf", 1, 1>> and <<"inf", -1, 1>> are +inf and -inf, <<"nan", 0, 1>> *)
(* is NaN.  The arithmetic follows IEEE-754 on the special values          *)
(* (inf - inf, inf * 0 and 0/0 are NaN, comparisons with NaN are false,    *)
(* np.maximum and np.min/np.max propagate NaN) and is exact on the finite  *)
(* values (rounding is not modelled); a finite result whose magnitude      *)
(* exceeds FMax overflows to the infinity of its sign.  The unit of a      *)
(* compliance is the floor of line 44 (1e-16 GPa^-1), so EinvFloor is 1    *)
(* and a modulus is counted in units of 1e16 GPa; FMax stands for the      *)
(* largest finite double.                                                  *)
(*                                                                         *)
(* Angles are counted in units of pi/12, and only grid sizes whose angles  *)
(* have rational squared sines are evaluated (samples - 1 in {1,2,3,4,6}), *)
(* so that the squared direction cosines are exact multiples of 1/16.      *)
(***************************************************************************)
EXTENDS Integers, Sequences, FiniteSets, TLC

\* ------------------------------------------------------------ bounds
\* largest finite magnitude of the float format, in units of the floor
FMax == 16
\* largest magnitude of an ordinary compliance drawn for the command line
MaxS == 2
\* largest grid resolution drawn for --samples
MaxSamples == 7
\* largest direction component drawn for the symmetry check, in quarters
MaxComp == 2

\* ------------------------------------------------------------ floats
Abs(x) == IF x < 0 THEN -x ELSE x

Sign(x) == IF x < 0 THEN -1 ELSE IF x > 0 THEN 1 ELSE 0

RECURSIVE GCD(_, _)
GCD(a, b) == IF b = 0 THEN a ELSE GCD(b, a % b)

NaN == <<"nan", 0, 1>>

PInf == <<"inf", 1, 1>>

NInf == <<"inf", -1, 1>>

Inf(s) == <<"inf", s, 1>>

IsNaN(a) == a[1] = "nan"

IsInf(a) == a[1] = "inf"

IsFin(a) == a[1] = "fin"

\* the float nearest n/d (d # 0): lowest terms, overflow to +-inf beyond FMax
Fl(n, d) ==
    LET s == Sign(d)
        nn == s * n
        dd == s * d
        g == GCD(Abs(nn), dd)
    IN  IF Abs(nn) > FMax * dd THEN Inf(Sign(nn))
        ELSE <<"fin", nn \div g, dd \div g>>

Zero == <<"fin", 0, 1>>

One == <<"fin", 1, 1>>

Two == <<"fin", 2, 1>>

Half == <<"fin", 1, 2>>

Neg(a) == IF IsNaN(a) THEN NaN ELSE <<a[1], -a[2], a[3]>>

Add(a, b) ==
    IF IsNaN(a) \/ IsNaN(b) THEN NaN
    ELSE IF IsInf(a) /\ IsInf(b) THEN (IF a[2] = b[2] THEN a ELSE NaN)
    ELSE IF IsInf(a) THEN a
    ELSE IF IsInf(b) THEN b
    ELSE LET g == GCD(a[3], b[3])
         IN  Fl(a[2] * (b[3] \div g) + b[2] * (a[3] \div g),
                (a[3] \div g) * b[3])

Sub(a, b) == Add(a, Neg(b))

Mul(a, b) ==
    IF IsNaN(a) \/ IsNaN(b) THEN NaN
    ELSE IF IsInf(a) \/ IsInf(b)
         THEN (IF a[2] = 0 \/ b[2] = 0 THEN NaN ELSE Inf(Sign(a[2]) * Sign(b[2])))
    ELSE LET g == GCD(Abs(a[2]), b[3])
             h == GCD(Abs(b[2]), a[3])
         IN  Fl((a[2] \div g) * (b[2] \div h), (a[3] \div h) * (b[3] \div g))

Div(a, b) ==
    IF IsNaN(a) \/ IsNaN(b) THEN NaN
    ELSE IF IsInf(a) THEN (IF IsInf(b) THEN NaN
                           ELSE Inf(a[2] * (IF b[2] < 0 THEN -1 ELSE 1)))
    ELSE IF IsInf(b) THEN Zero
    ELSE IF b[2] = 0 THEN (IF a[2] = 0 THEN NaN ELSE Inf(Sign(a[2])))
    ELSE LET g == GCD(Abs(a[2]), Abs(b[2]))
             h == GCD(a[3], b[3])
         IN  Fl((a[2] \div g) * (b[3] \div h), (a[3] \div h) * (b[2] \div g))

\* a < b; false when either is NaN
Lt(a, b) ==
    IF IsNaN(a) \/ IsNaN(b) THEN FALSE
    ELSE IF IsInf(a) THEN a[2] = -1 /\ b # a
    ELSE IF IsInf(b) THEN b[2] = 1
    ELSE LET g == GCD(a[3], b[3])
         IN  a[2] * (b[3] \div g) < b[2] * (a[3] \div g)

Gt(a, b) == Lt(b, a)

Le(a, b) == ~IsNaN(a) /\ ~IsNaN(b) /\ ~Lt(b, a)

Ge(a, b) == Le(b, a)

\* np.maximum: elementwise maximum, NaN if either operand is NaN
Maximum(a, b) ==
    IF IsNaN(a) \/ IsNaN(b) THEN NaN ELSE IF Lt(a, b) THEN b ELSE a

\* ------------------------------------------------------------ the grid
\* np.pi, in units of pi/12
Pi == 12

\* grid sizes whose angles all have rational squared sines and cosines
TrigExact(num) == (num - 1) \in {1, 2, 3, 4, 6}

\* np.linspace(0, stop, num, endpoint=False): the stop value left out
LinspaceOpen(stop, num) ==
    [i \in 1..num |-> (stop * (i - 1)) \div num]

\* np.linspace(0, stop, num): num values from 0 to stop, both included
Linspace(stop, num) ==
    [i \in 1..num |-> IF num = 1 THEN 0 ELSE (stop * (i - 1)) \div (num - 1)]

\* np.sin(u)**2 for u a multiple of pi/6 or of pi/4, in units of pi/12
Sin2(u) ==
    LET r == u % 12
    IN  Fl(CASE r = 0 -> 0
             [] r \in {2, 10} -> 1
             [] r \in {3, 9} -> 2
             [] r \in {4, 8} -> 3
             [] r = 6 -> 4, 4)

\* np.cos(u)**2
Cos2(u) == Sin2(u + 6)

Cells(num) == (1..num) \X (1..num)

\* np.meshgrid(theta, phi): T[i, j] = theta[j], P[i, j] = phi[i]
MeshT(th, ph) == [c \in Cells(Len(th)) |-> th[c[2]]]

MeshP(th, ph) == [c \in Cells(Len(ph)) |-> ph[c[1]]]

\* ax**2, ay**2, az**2 at polar angle t and azimuth p
N1sq(t, p) == Mul(Sin2(t), Cos2(p))

N2sq(t, p) == Mul(Sin2(t), Sin2(p))

N3sq(t, p) == Cos2(t)

\* ------------------------------------------------------------ the formula
\* the last product taken with n3_2 twice
I2OfSlip(n1_2, n2_2, n3_2) ==
    Add(Add(Mul(n1_2, n2_2), Mul(n2_2, n3_2)), Mul(n3_2, n3_2))

\* I2 = n1_2 * n2_2 + n2_2 * n3_2 + n3_2 * n1_2
I2Of(n1_2, n2_2, n3_2) ==
    Add(Add(Mul(n1_2, n2_2), Mul(n2_2, n3_2)), Mul(n3_2, n1_2))

\* S11 - S12 - 0.5 * S44
Aniso(S11, S12, S44) == Sub(Sub(S11, S12), Mul(Half, S44))

\* the shear term added instead of subtracted
EinvRawSignSlip(S11, S12, S44, I2) ==
    Sub(S11, Mul(Mul(Two, Add(Sub(S11, S12), Mul(Half, S44))), I2))

\* Einv = S11 - 2.0 * (S11 - S12 - 0.5 * S44) * I2
EinvRaw(S11, S12, S44, I2) ==
    Sub(S11, Mul(Mul(Two, Aniso(S11, S12, S44)), I2))

\* 1e-16, the unit of the compliances of the model
EinvFloor == 1

\* Einv = np.maximum(Einv, 1e-16)
Clamp(Einv) == Maximum(Einv, Fl(EinvFloor, 1))

\* E = 1.0 / Einv
Recip(Einv) == Div(One, Einv)

ECell(S11, S12, S44, I2) == Recip(Clamp(EinvRaw(S11, S12, S44, I2)))

\* ------------------------------------------------------------ state
VARIABLES
    pc,        \* position of the run
    argv,      \* the command line handed to the parser
    args,      \* the parsed arguments (args of main)
    warned,    \* the stability warning was printed
    entered,   \* the functions of the module entered so far
    evalIn,    \* the arguments directional_E_cubic_from_S was called with
    theta,     \* its polar angles
    phi,       \* its azimuthal angles
    I2,        \* its invariant I2, per grid cell
    E,         \* its result E, per grid cell
    plotIn,    \* the colormap name plot_young_surface_colored was called with
    normed,    \* norm(E), per grid cell
    colors,    \* cmap(norm(E)), per grid cell
    openFigs,  \* figures pyplot holds open
    files,     \* image files written
    err,       \* the exception that ended the run, or "none"
    status,    \* the exit status of the process, -1 while it runs
    dir,       \* direction components of the symmetry check, in quarters
    Edir       \* the modulus of each variant of dir

vars == <<pc, argv, args, warned, entered, evalIn, theta, phi, I2, E, plotIn,
          normed, colors, openFigs, files, err, status, dir, Edir>>

\* ------------------------------------------------------------ command line
Missing == <<"missing", 0, 1>>

Malformed == <<"bad", 0, 1>>

\* what float() makes of a well-formed option value
\* ordinary values, the largest finite float and its negative, and the
\* special values
FloatVals ==
    {Fl(n, 1) : n \in (-MaxS)..MaxS} \cup {Fl(FMax, 1), Fl(-FMax, 1)}
        \cup {PInf, NInf, NaN}

\* what int() makes of a well-formed --samples value; the runs modelled
\* pass --samples
SampleVals == {n \in (-1)..MaxSamples : n < 2 \/ TrigExact(n)}

\* a --samples value int() rejects, such as 2.5
BadInt == <<"bad", 0>>

SampleArgs == {<<"int", n>> : n \in SampleVals} \cup {BadInt}

CmapNames == {"turbo", "nosuch"}

\* plt.colormaps: the registered colormaps
Registered == {"turbo"}

Argv == [S11 : FloatVals \cup {Missing, Malformed},
         S12 : FloatVals \cup {Missing, Malformed},
         S44 : FloatVals \cup {Missing, Malformed},
         samples : SampleArgs,
         cmap : CmapNames]

NoArgv == [S11 |-> Missing, S12 |-> Missing, S44 |-> Missing,
           samples |-> BadInt, cmap |-> ""]

NoArgs == [S11 |-> Zero, S12 |-> Zero, S44 |-> Zero, samples |-> 0, cmap |-> ""]

\* the namespace parse_args returns for an accepted command line
Parsed(a) == [S11 |-> a.S11, S12 |-> a.S12, S44 |-> a.S44,
              samples |-> a.samples[2], cmap |-> a.cmap]

NoGrid == [c \in {} |-> Zero]

\* p.parse_args() accepts the command line
ParseOK(a) ==
    /\ a.S11 \in FloatVals
    /\ a.S12 \in FloatVals
    /\ a.S44 \in FloatVals
    /\ a.samples # BadInt

\* the check without its S44 condition
StableNoS44(a) ==
    /\ Gt(a.S11, Zero)
    /\ Gt(Sub(a.S11, a.S12), Zero)
    /\ Gt(Add(a.S11, Mul(Two, a.S12)), Zero)

\* args.S11 > 0 and args.S44 > 0 and (args.S11 - args.S12) > 0 and
\* (args.S11 + 2 * args.S12) > 0
Stable(a) ==
    /\ Gt(a.S11, Zero)
    /\ Gt(a.S44, Zero)
    /\ Gt(Sub(a.S11, a.S12), Zero)
    /\ Gt(Add(a.S11, Mul(Two, a.S12)), Zero)

Init ==
    /\ pc = "start"
    /\ argv = NoArgv
    /\ args = NoArgs
    /\ warned = FALSE
    /\ entered = {}
    /\ evalIn = NoArgs
    /\ theta = <<>>
    /\ phi = <<>>
    /\ I2 = NoGrid
    /\ E = NoGrid
    /\ plotIn = ""
    /\ normed = NoGrid
    /\ colors = NoGrid
    /\ openFigs = 0
    /\ files = 0
    /\ err = "none"
    /\ status = -1
    /\ dir = <<0, 0, 0>>
    /\ Edir = <<>>

\* args = p.parse_args(): exits with status 2 on a missing or malformed option
Parse ==
    /\ pc = "start"
    /\ \E a \in Argv :
        /\ argv' = a
        /\ IF ParseOK(a)
           THEN /\ args' = Parsed(a)
                /\ pc' = "parsed"
                /\ UNCHANGED <<err, status>>
           ELSE /\ args' = args
                /\ pc' = "exit"
                /\ err' = "SystemExit"
                /\ status' = 2
    /\ UNCHANGED <<warned, entered, evalIn, theta, phi, I2, E, plotIn, normed,
                   colors, openFigs, files, dir, Edir>>

\* the stability check of main: prints, never exits
StabilityCheck ==
    /\ pc = "parsed"
    /\ warned' = ~Stable(args)
    /\ pc' = "checked"
    /\ UNCHANGED <<argv, args, entered, evalIn, theta, phi, I2, E, plotIn,
                   normed, colors, openFigs, files, err, status, dir, Edir>>

\* ------------------------------------------------------------ evaluation
\* I2 over the grid of theta x phi
I2Grid(th, ph) ==
    [c \in Cells(Len(th)) |->
        LET t == MeshT(th, ph)[c]
            p == MeshP(th, ph)[c]
        IN  I2Of(N1sq(t, p), N2sq(t, p), N3sq(t, p))]

\* E over the grid
EGrid(a, g) == [c \in DOMAIN g |-> ECell(a.S11, a.S12, a.S44, g[c])]

\* E, ax, ay, az = directional_E_cubic_from_S(args.S11, args.S12, args.S44,
\*                                            samples=args.samples)
\* np.linspace raises ValueError on a negative number of samples
Evaluate ==
    /\ pc = "checked"
    /\ entered' = entered \cup {"directional_E_cubic_from_S"}
    /\ evalIn' = [args EXCEPT !.cmap = ""]
    /\ IF args.samples < 0
       THEN /\ pc' = "exit"
            /\ err' = "ValueError"
            /\ status' = 1
            /\ UNCHANGED <<theta, phi, I2, E>>
       ELSE /\ theta' = Linspace(Pi, args.samples)
            /\ phi' = Linspace(2 * Pi, args.samples)
            /\ I2' = I2Grid(theta', phi')
            /\ E' = EGrid(args, I2')
            /\ pc' = "evaluated"
            /\ UNCHANGED <<err, status>>
    /\ UNCHANGED <<argv, args, warned, plotIn, normed, colors, openFigs, files,
                   dir, Edir>>

\* ------------------------------------------------------------ rendering
\* a == b on floats: false when either is NaN
Eq(a, b) == ~IsNaN(a) /\ ~IsNaN(b) /\ a = b

\* the values of the cells of g
Values(g) == {g[c] : c \in DOMAIN g}

\* E.min(): the least cell of g (g not empty), NaN if any cell is NaN
ArrMin(g) ==
    IF \E v \in Values(g) : IsNaN(v) THEN NaN
    ELSE CHOOSE v \in Values(g) : \A w \in Values(g) : Le(v, w)

\* E.max(): the greatest cell of g (g not empty), NaN if any cell is NaN
ArrMax(g) ==
    IF \E v \in Values(g) : IsNaN(v) THEN NaN
    ELSE CHOOSE v \in Values(g) : \A w \in Values(g) : Le(w, v)

\* the normalization without the zero-width case
NormalizeNoSpecial(vmin, vmax, x) == Div(Sub(x, vmin), Sub(vmax, vmin))

\* plt.Normalize(vmin, vmax)(x): 0 for every value of a zero-width range,
\* (x - vmin) / (vmax - vmin) otherwise
Normalize(vmin, vmax, x) ==
    IF Eq(vmin, vmax) THEN Zero ELSE Div(Sub(x, vmin), Sub(vmax, vmin))

\* entries of a colormap's lookup table
LutSize == 256

\* cmap(x): the entry of the lookup table x falls in; LutSize + 2 is the
\* entry of the bad (NaN) color
LutIndex(x) ==
    IF IsNaN(x) THEN LutSize + 2
    ELSE IF Lt(x, Zero) THEN LutSize
    ELSE IF Ge(x, One) THEN (IF Eq(x, One) THEN LutSize - 1 ELSE LutSize + 1)
    ELSE (x[2] * LutSize) \div x[3]

\* a lookup that falls back to a default colormap
CmapFallback(name) == TRUE

\* plt.colormaps[cmap_name] finds the colormap
CmapResolves(name) == name \in Registered

\* lines 70-72: norm, cmap = plt.colormaps[cmap_name], colors = cmap(norm(E));
\* E.min() raises ValueError on an empty array, the lookup KeyError on an
\* unregistered name
Colorize ==
    /\ pc = "evaluated"
    /\ entered' = entered \cup {"plot_young_surface_colored"}
    /\ plotIn' = args.cmap
    /\ IF DOMAIN E = {}
       THEN /\ pc' = "exit"
            /\ err' = "ValueError"
            /\ status' = 1
            /\ UNCHANGED <<normed, colors>>
       ELSE IF ~CmapResolves(args.cmap)
       THEN /\ pc' = "exit"
            /\ err' = "KeyError"
            /\ status' = 1
            /\ UNCHANGED <<normed, colors>>
       ELSE /\ normed' = [c \in DOMAIN E |-> Normalize(ArrMin(E), ArrMax(E), E[c])]
            /\ colors' = [c \in DOMAIN E |-> <<args.cmap, LutIndex(normed'[c])>>]
            /\ pc' = "colored"
            /\ UNCHANGED <<err, status>>
    /\ UNCHANGED <<argv, args, warned, evalIn, theta, phi, I2, E, openFigs,
                   files, dir, Edir>>

\* lines 75-106: plt.figure(dpi=200) opens a figure, the surface, the colorbar
\* and the axes are drawn on it
Draw ==
    /\ pc = "colored"
    /\ openFigs' = openFigs + 1
    /\ pc' = "drawn"
    /\ UNCHANGED <<argv, args, warned, entered, evalIn, theta, phi, I2, E,
                   plotIn, normed, colors, files, err, status, dir, Edir>>

\* line 109: plt.savefig(outfile, bbox_inches='tight'); raises OSError when
\* the path cannot be written
Savefig ==
    /\ pc = "drawn"
    /\ \E writable \in BOOLEAN :
        IF writable
        THEN /\ files' = files + 1
             /\ pc' = "saved"
             /\ UNCHANGED <<err, status>>
        ELSE /\ files' = files
             /\ pc' = "exit"
             /\ err' = "OSError"
             /\ status' = 1
    /\ UNCHANGED <<argv, args, warned, entered, evalIn, theta, phi, I2, E,
                   plotIn, normed, colors, openFigs, dir, Edir>>

\* line 110: plt.show(); an interactive backend blocks until the user closes
\* the window, which destroys the figure; a non-interactive backend returns
\* at once and the figure stays open.  main returns, the process exits with 0
Show ==
    /\ pc = "saved"
    /\ \E interactive \in BOOLEAN :
        openFigs' = IF interactive THEN openFigs - 1 ELSE openFigs
    /\ pc' = "exit"
    /\ status' = 0
    /\ UNCHANGED <<argv, args, warned, entered, evalIn, theta, phi, I2, E,
                   plotIn, normed, colors, files, err, dir, Edir>>

Next ==
    \/ Parse
    \/ StabilityCheck
    \/ Evaluate
    \/ Colorize
    \/ Draw
    \/ Savefig
    \/ Show

Spec == Init /\ [][Next]_vars

\* ------------------------------------------------------------ symmetry
\* ax**2 for a component of m quarters
Sq(m) == Fl(m * m, 16)

\* the modulus of lines 36-47 along the direction n = (n1, n2, n3)
EDir(a, n) == ECell(a.S11, a.S12, a.S44, I2Of(Sq(n[1]), Sq(n[2]), Sq(n[3])))

\* the direction n, its two cyclic permutations and its three sign flips
Variants(n) ==
    [id |-> n,
     rot1 |-> <<n[2], n[3], n[1]>>,
     rot2 |-> <<n[3], n[1], n[2]>>,
     flip1 |-> <<-n[1], n[2], n[3]>>,
     flip2 |-> <<n[1], -n[2], n[3]>>,
     flip3 |-> <<n[1], n[2], -n[3]>>]

InitSym ==
    /\ pc = "dir"
    /\ argv = NoArgv
    /\ args \in [S11 : FloatVals, S12 : FloatVals, S44 : FloatVals,
                 samples : {0}, cmap : {""}]
    /\ warned = FALSE
    /\ entered = {}
    /\ evalIn = NoArgs
    /\ theta = <<>>
    /\ phi = <<>>
    /\ I2 = NoGrid
    /\ E = NoGrid
    /\ plotIn = ""
    /\ normed = NoGrid
    /\ colors = NoGrid
    /\ openFigs = 0
    /\ files = 0
    /\ err = "none"
    /\ status = -1
    /\ dir \in (0..MaxComp) \X (0..MaxComp) \X (0..MaxComp)
    /\ Edir = <<>>

\* the formula applied to dir and to each of its variants
EvalDir ==
    /\ pc = "dir"
    /\ LET vs == Variants(dir)
       IN  Edir' = [v \in DOMAIN vs |-> EDir(args, vs[v])]
    /\ pc' = "dirdone"
    /\ UNCHANGED <<argv, args, warned, entered, evalIn, theta, phi, I2, E,
                   plotIn, normed, colors, openFigs, files, err, status, dir>>

NextSym == EvalDir

SpecSym == InitSym /\ [][NextSym]_vars

\* ------------------------------------------------------------ properties
\* directional_E_cubic_from_S returned a field with at least one cell
EvalDone == DOMAIN E # {}

EvalEntered == "directional_E_cubic_from_S" \in entered

PlotEntered == "plot_young_surface_colored" \in entered

\* the stability check of main has run
Checked ==
    \/ pc \in {"checked", "evaluated", "colored", "drawn", "saved"}
    \/ pc = "exit" /\ err # "SystemExit"

Floor == Fl(EinvFloor, 1)

\* the coefficient S11 - S12 - 0.5*S44 of the evaluation
Coef == Aniso(evalIn.S11, evalIn.S12, evalIn.S44)

\* C1: for finite S11, S12, S44 and samples >= 2, every cell of the field E
\* is finite and strictly positive, 0 < E <= 1e16.
C1_PositiveFinite ==
    (/\ EvalDone
     /\ evalIn.samples >= 2
     /\ IsFin(evalIn.S11) /\ IsFin(evalIn.S12) /\ IsFin(evalIn.S44))
    => \A c \in DOMAIN E : IsFin(E[c]) /\ Gt(E[c], Zero) /\ Le(E[c], One)

\* at least one of S11 <= 0, S44 <= 0, S11 - S12 <= 0, S11 + 2*S12 <= 0
UnstableLe(a) ==
    \/ Le(a.S11, Zero)
    \/ Le(a.S44, Zero)
    \/ Le(Sub(a.S11, a.S12), Zero)
    \/ Le(Add(a.S11, Mul(Two, a.S12)), Zero)

\* one of the four quantities of the check is NaN
CheckNaN(a) ==
    \/ IsNaN(a.S11)
    \/ IsNaN(a.S44)
    \/ IsNaN(Sub(a.S11, a.S12))
    \/ IsNaN(Add(a.S11, Mul(Two, a.S12)))

\* the check leaves the run as it was: the parsed arguments are kept, the run
\* is not ended by the check, every run past the check enters the evaluation
\* and every run past the evaluation enters the render, with the parsed
\* arguments
Proceeds ==
    /\ Checked => args = Parsed(argv)
    /\ pc = "checked" => status = -1 /\ err = "none"
    /\ (Checked /\ pc # "checked") => EvalEntered
    /\ (pc \in {"colored", "drawn", "saved"} \/ status = 0) => PlotEntered
    /\ EvalEntered => evalIn = [args EXCEPT !.cmap = ""]
    /\ PlotEntered => plotIn = args.cmap
    /\ warned => err # "SystemExit"

\* C2 as stated: the warning is printed iff one of the four <= conditions
\* holds, and the run proceeds with the parsed arguments either way.
C2_WarnIffLe ==
    /\ Checked => (warned <=> UnstableLe(args))
    /\ Proceeds

\* C2 amended: the warning is printed iff one of the four <= conditions holds
\* or one of the four checked quantities is NaN, and the run proceeds with the
\* parsed arguments either way.
C2_WarnIffNotStable ==
    /\ Checked => (warned <=> (UnstableLe(args) \/ CheckNaN(args)))
    /\ Proceeds

C2_Witness ==
    /\ warned
    /\ ~CheckNaN(args)
    /\ PlotEntered
    /\ pc = "exit"
    /\ status = 0

\* C3 as stated: when S11 - S12 - 0.5*S44 = 0, every cell of E equals 1/S11.
C3_IsotropicRecipS11 ==
    (EvalDone /\ Eq(Coef, Zero))
    => \A c \in DOMAIN E : E[c] = Div(One, evalIn.S11)

\* C3 amended: when S11 - S12 - 0.5*S44 = 0, every cell of E has the same
\* value 1/max(S11, 1e-16): 1/S11 when S11 >= 1e-16, the cap 1e16 otherwise.
C3_IsotropicClamped ==
    (EvalDone /\ Eq(Coef, Zero))
    => \A c \in DOMAIN E :
          E[c] = IF Ge(evalIn.S11, Floor) THEN Div(One, evalIn.S11)
                 ELSE Div(One, Floor)

C3_Witness ==
    /\ EvalDone
    /\ Eq(Coef, Zero)
    /\ Le(evalIn.S11, Zero)
    /\ evalIn.S44 # Zero
    /\ \E c \in DOMAIN E : Gt(I2[c], Zero)

\* C4: the modulus of a direction (n1, n2, n3) is that of its two cyclic
\* permutations and of its three single sign flips.
C4_CubicSymmetry ==
    pc = "dirdone" => \A v \in DOMAIN Edir : Edir[v] = Edir.id

C4_Witness ==
    /\ pc = "dirdone"
    /\ dir[1] # dir[2] /\ dir[2] # dir[3] /\ dir[1] # dir[3]
    /\ IsFin(Edir.id)
    /\ Lt(Edir.id, One)

\* C5: over the cells of one evaluation (finite S11, S12, S44, samples >= 2),
\* the maximum E.max() of E is attained at a cell of maximal I2 when
\* S11 - S12 - 0.5*S44 > 0, and at a cell of minimal I2 (I2 = 0) when
\* S11 - S12 - 0.5*S44 <= 0.
C5_MaxLocation ==
    (/\ EvalDone
     /\ evalIn.samples >= 2
     /\ IsFin(evalIn.S11) /\ IsFin(evalIn.S12) /\ IsFin(evalIn.S44))
    => /\ Gt(Coef, Zero) =>
              \E c \in DOMAIN E :
                  /\ I2[c] = ArrMax(I2)
                  /\ E[c] = ArrMax(E)
       /\ Le(Coef, Zero) =>
              \E c \in DOMAIN E :
                  /\ I2[c] = ArrMin(I2)
                  /\ I2[c] = Zero
                  /\ E[c] = ArrMax(E)

\* a command line the claim calls invalid: a compliance missing or malformed,
\* samples not an integer or an integer below 2
ArgvInvalid(a) ==
    \/ a.S11 \in {Missing, Malformed}
    \/ a.S12 \in {Missing, Malformed}
    \/ a.S44 \in {Missing, Malformed}
    \/ a.samples = BadInt
    \/ a.samples[2] < 2

\* C6: on an invalid command line the program exits non-zero during argument
\* parsing and enters neither directional_E_cubic_from_S nor
\* plot_young_surface_colored.
C6_ArgErrorsFatal ==
    (pc # "start" /\ ArgvInvalid(argv))
    => /\ pc = "exit"
       /\ err = "SystemExit"
       /\ status > 0
       /\ entered = {}

\* E.min() == E.max()
Degenerate == EvalDone /\ Eq(ArrMin(E), ArrMax(E))

\* C7 as stated: on a degenerate range the normalization does not fail and
\* every cell gets the color of the midpoint 0.5 of the scale.
C7_DegenerateMidpoint ==
    (PlotEntered /\ Degenerate /\ args.cmap \in Registered)
    => /\ DOMAIN colors = DOMAIN E
       /\ \A c \in DOMAIN E : colors[c] = <<args.cmap, LutIndex(Half)>>

\* C7 amended: on a degenerate range the normalization does not fail and
\* every cell gets one and the same color, that of the normalized value 0,
\* the low end of the scale.
C7_DegenerateLowEnd ==
    (PlotEntered /\ Degenerate /\ args.cmap \in Registered)
    => /\ DOMAIN colors = DOMAIN E
       /\ \A c \in DOMAIN E :
             normed[c] = Zero /\ colors[c] = <<args.cmap, LutIndex(Zero)>>

C7_Witness ==
    /\ PlotEntered
    /\ Degenerate
    /\ pc = "colored"
    /\ Cardinality(DOMAIN E) > 1
    /\ \E c \in DOMAIN E : Gt(I2[c], Zero)

\* C8: every figure plot_young_surface_colored creates is closed when the
\* call returns or propagates an error; no figure is open afterwards.
C8_FigureClosed ==
    (PlotEntered /\ pc = "exit") => openFigs = 0

\* the polar grid of both claims: samples angles, uniform over [0, pi]
ThetaClosed(n) ==
    /\ Len(theta) = n
    /\ theta[1] = 0
    /\ theta[n] = Pi
    /\ \A i \in 1..(n - 1) : (theta[i + 1] - theta[i]) * (n - 1) = Pi

C10_BadCmapFailsEarly ==
    (PlotEntered /\ plotIn \notin Registered)
    => /\ pc = "exit"
       /\ status = 1
       /\ err \in {"KeyError", "ValueError"}
       /\ openFigs = 0
       /\ files = 0

C10_Witness ==
    /\ PlotEntered
    /\ plotIn \notin Registered
    /\ err = "KeyError"
    /\ pc = "exit"

====
